---------------------------- MODULE Spec2Model ----------------------------
(***************************************************************************)
(* GpxReader (src/GpxReader.py): the planned line and the route actually   *)
(* taken are read from two gpx files, joined into one ring, and three      *)
(* statistics are derived: the length of the line (haversine), the area    *)
(* enclosed by the ring (line integral on the sphere) and their quotient.  *)
(*                                                                         *)
(* Numbers.  numpy's float64 values are modelled in fixed point:           *)
(*   - an angle in radians is an integer number of units of pi/180, so     *)
(*     that pi is the integer PI and 2*pi is 2*PI;                         *)
(*   - a dimensionless value (a sine, a cosine, the haversine a) is an     *)
(*     integer number of units of 1/Scale;                                 *)
(*   - a length is an integer number of radius units.                      *)
(* Division and the modulus are floored, as Python's % is.  The results    *)
(* that float64 division can make non-finite (inf, nan) and the fields     *)
(* that still hold None are records with a "kind".                         *)
(***************************************************************************)
EXTENDS Integers, Sequences, FiniteSets

\* ------------------------------------------------------------------ bounds
MaxLineLen == 3        \* most points in the planned-line segment
MaxMissionLen == 2     \* most points in the actual-route segment
MaxRadius == 2         \* earth_radius ranges over 1..MaxRadius radius units
MaxRing == 3           \* most points of a ring handed to calculate_area alone
MaxLong == 3           \* most points of a track that stays on the meridian

\* ------------------------------------------------------------- numpy layer
PI == 180
Scale == 10000

Abs(x) == IF x < 0 THEN -x ELSE x
Min(x, y) == IF x <= y THEN x ELSE y
Last(s) == s[Len(s)]
Reverse(s) == [i \in 1..Len(s) |-> s[Len(s) + 1 - i]]

\* Python's sum() of a sequence of numbers
RECURSIVE SumSeq(_)
SumSeq(s) == IF s = << >> THEN 0 ELSE Head(s) + SumSeq(Tail(s))

\* numpy.diff: the differences of neighbouring elements
Diff(s) == [i \in 1..(Len(s) - 1) |-> s[i + 1] - s[i]]

\* sin of 0..90 degrees in units of 1/Scale
SinQuarter ==
    <<     0,   175,   349,   523,   698,   872,  1045,  1219,  1392,  1564,
        1736,  1908,  2079,  2250,  2419,  2588,  2756,  2924,  3090,  3256,
        3420,  3584,  3746,  3907,  4067,  4226,  4384,  4540,  4695,  4848,
        5000,  5150,  5299,  5446,  5592,  5736,  5878,  6018,  6157,  6293,
        6428,  6561,  6691,  6820,  6947,  7071,  7193,  7314,  7431,  7547,
        7660,  7771,  7880,  7986,  8090,  8192,  8290,  8387,  8480,  8572,
        8660,  8746,  8829,  8910,  8988,  9063,  9135,  9205,  9272,  9336,
        9397,  9455,  9511,  9563,  9613,  9659,  9703,  9744,  9781,  9816,
        9848,  9877,  9903,  9925,  9945,  9962,  9976,  9986,  9994,  9998,
       10000 >>

\* numpy.sin of an angle, in units of 1/Scale
Sin(x) ==
    LET r == x % (2 * PI)
    IN  IF r <= PI \div 2 THEN SinQuarter[r + 1]
        ELSE IF r <= PI THEN SinQuarter[PI - r + 1]
        ELSE IF r <= (3 * PI) \div 2 THEN -SinQuarter[r - PI + 1]
        ELSE -SinQuarter[2 * PI - r + 1]

\* numpy.cos of an angle, in units of 1/Scale
Cos(x) == Sin(x + PI \div 2)

\* the product of two values in units of 1/Scale, in units of 1/Scale
Mul(u, v) == (u * v) \div Scale

\* numpy.sqrt of a value in units of 1/Scale (floored)
RECURSIVE SqrtBetween(_, _, _)
SqrtBetween(n, lo, hi) ==
    IF lo >= hi THEN lo
    ELSE LET mid == (lo + hi + 1) \div 2
         IN  IF mid * mid <= n THEN SqrtBetween(n, mid, hi)
             ELSE SqrtBetween(n, lo, mid - 1)
Sqrt(v) == SqrtBetween(v * Scale, 0, 2 * Scale)

\* numpy.arctan2(y, x): the angle in [-PI, PI] whose direction is nearest to
\* that of (x, y), and 0 for x = y = 0.  The angle is found in the first
\* quadrant for (|x|, |y|) and reflected into the quadrant of (x, y).
Arctan2(y, x) ==
    LET proj(t) == Abs(x) * Cos(t) + Abs(y) * Sin(t)
        Quarter == 0..(PI \div 2)
        q == CHOOSE t \in Quarter :
                 \A u \in Quarter : \/ proj(u) < proj(t)
                                    \/ proj(u) = proj(t) /\ t <= u
    IN  IF x = 0 /\ y = 0 THEN 0
        ELSE IF x >= 0 THEN (IF y >= 0 THEN q ELSE -q)
        ELSE (IF y >= 0 THEN PI - q ELSE q - PI)

\* numpy.deg2rad: x * pi / 180
Deg2Rad(x) == (x * PI) \div 180

\* float64 results and the fields that hold None until they are computed
None == [kind |-> "None", val |-> 0]
Float(v) == [kind |-> "float", val |-> v]
Inf == [kind |-> "inf", val |-> 0]
NegInf == [kind |-> "-inf", val |-> 0]
NaN == [kind |-> "nan", val |-> 0]

\* float64 division x / y: dividing by zero gives inf, -inf or nan (numpy
\* warns and goes on), it raises nothing
TrueDiv(x, y) ==
    IF y.val # 0 THEN Float(x.val \div y.val)
    ELSE IF x.val > 0 THEN Inf
    ELSE IF x.val < 0 THEN NegInf
    ELSE NaN

\* ------------------------------------------------------------------ inputs
\* a gpx track point: longitude and latitude in degrees, as the file gives them
GeoPoint(lon, lat) == [longitude |-> lon, latitude |-> lat]

\* the points the two files are drawn from; the last lies outside the valid
\* range of longitudes
TrackPoints ==
    { GeoPoint(0, 80), GeoPoint(0, -80), GeoPoint(40, 20), GeoPoint(200, 20) }

\* the two of them on the meridian of Greenwich, north and south of (0,0)
MeridianPoints == { GeoPoint(0, 80), GeoPoint(0, -80) }

SeqsUpTo(S, n) == UNION { [1..k -> S] : k \in 0..n }
\* earth_radius in radius units: the area is a multiple of its square, and
\* the square of the default, 6378137 m, is beyond TLC's integers
Radii == 1..MaxRadius

\* --------------------------------------------------------------- geometry
\* the [longitude, latitude] pairs of a list of track points
Coords(points) ==
    [i \in 1..Len(points) |-> <<points[i].longitude, points[i].latitude>>]

\* read_segments: the list shown for one track, forward then reversed
ThereAndBack(points) == Coords(points) \o Coords(Reverse(points))

\* the joined ring with the mission appended in file order
PolygonCoordsForward(line, mission) ==
    Coords(line) \o Coords(mission) \o Coords(SubSeq(line, 1, Min(1, Len(line))))

\* read_segments: the joined ring, the line forward, the mission reversed and
\* points[0:1] of the line
PolygonCoords(line, mission) ==
    Coords(line) \o Coords(Reverse(mission))
        \o Coords(SubSeq(line, 1, Min(1, Len(line))))

\* calculate_line_distance: points[0] and points[-1]
LineStart(points) == points[1]
\* points[1] in place of points[-1]
LineEndSecond(points) == points[Min(2, Len(points))]
LineEnd(points) == points[Len(points)]

\* calculate_line_distance: the central angle c between two points
HaversineC(p1, p2) ==
    LET lat_1 == Deg2Rad(p1.latitude)
        lat_2 == Deg2Rad(p2.latitude)
        lon_1 == Deg2Rad(p1.longitude)
        lon_2 == Deg2Rad(p2.longitude)
        dlon == lon_2 - lon_1
        dlat == lat_2 - lat_1
        sdlat == Sin(dlat \div 2)
        sdlon == Sin(dlon \div 2)
        a == Mul(sdlat, sdlat) + Mul(Mul(Cos(lat_1), Cos(lat_2)), Mul(sdlon, sdlon))
    IN  2 * Arctan2(Sqrt(a), Sqrt(Scale - a))

\* HaversineC on the points of the model, computed once
HaversineMemo == [p1 \in TrackPoints, p2 \in TrackPoints |-> HaversineC(p1, p2)]

\* calculate_line_distance: the length of the line
LineDistance(points, radius) ==
    radius * HaversineMemo[LineStart(points), LineEnd(points)]

\* calculate_area: the colatitude of one point relative to (0,0)
Colatitude(lat, lon) ==
    LET slat == Sin(lat \div 2)
        slon == Sin(lon \div 2)
        a == Mul(slat, slat) + Mul(Cos(lat), Mul(slon, slon))
    IN  2 * Arctan2(Sqrt(a), Sqrt(Scale - a))

\* calculate_area: the azimuth of one point relative to (0,0)
Azimuth(lat, lon) == Arctan2(Mul(Cos(lat), Sin(lon)), Sin(lat)) % (2 * PI)

\* Colatitude and Azimuth on the coordinates of the model, computed once
RadianPairs ==
    { <<Deg2Rad(p.latitude), Deg2Rad(p.longitude)>> : p \in TrackPoints }
ColatMemo == [ll \in RadianPairs |-> Colatitude(ll[1], ll[2])]
AzMemo == [ll \in RadianPairs |-> Azimuth(ll[1], ll[2])]

\* the normalisation the source keeps as a comment: daz = diff(az) % (2*pi)
NormaliseModOnly(d) == d % (2 * PI)

\* calculate_area: daz = (daz + pi) % (2 * pi) - pi
Normalise(d) == ((d + PI) % (2 * PI)) - PI

\* calculate_area: the azimuths and the normalised azimuth deltas of a ring
AzOf(lats, lons) == [i \in 1..Len(lats) |-> AzMemo[<<lats[i], lons[i]>>]]
DazOf(az) ==
    LET d == Diff(az)
    IN  [i \in 1..Len(d) |-> Normalise(d[i])]

\* calculate_area: the colatitudes of a ring
ColatOf(lats, lons) == [i \in 1..Len(lats) |-> ColatMemo[<<lats[i], lons[i]>>]]

\* calculate_area: colat[0:-1] + diff(colat) / 2
MidColat(colat) ==
    LET deltas == Diff(colat)
    IN  [i \in 1..Len(deltas) |-> colat[i] + deltas[i] \div 2]

\* calculate_area: integrands = (1 - cos(colat)) * daz
Integrands(colat, daz) ==
    [i \in 1..Len(daz) |-> (Scale - Cos(colat[i])) * daz[i]]

\* 4 * pi in the unit of the integrands
FourPi == 4 * PI * Scale

\* calculate_area: abs(sum) / (4 pi) as a number of units of 1/FourPi, the
\* smaller of it and 1 minus it, times 4 pi r^2
AreaOfSum(total, radius) ==
    LET area == Abs(total)
    IN  Min(area, FourPi - area) * radius * radius

\* calculate_area on the ring lat_deg, lon_deg: the exception it raises or
\* "none", and the values of lats, lons, az, daz and __area it ends with
CalculateAreaOf(lat_deg, lon_deg, radius) ==
    LET lats == [i \in 1..Len(lat_deg) |-> Deg2Rad(lat_deg[i])]
        lons == [i \in 1..Len(lon_deg) |-> Deg2Rad(lon_deg[i])]
        az == AzOf(lats, lons)
        daz == DazOf(az)
        colat == MidColat(ColatOf(lats, lons))
        total == SumSeq(Integrands(colat, daz))
        Raised(e) == [error |-> e, lats |-> << >>, lons |-> << >>,
                      az |-> << >>, daz |-> << >>, area |-> None]
    IN  IF lats = << >> THEN Raised("IndexError")
        \* lats.append: a numpy array has no append
        ELSE IF lats[1] # Last(lats) THEN Raised("AttributeError")
        ELSE [error |-> "none", lats |-> lats, lons |-> lons, az |-> az,
              daz |-> daz, area |-> Float(AreaOfSum(total, radius))]

\* shapely's Polygon(shell): a shell that is not empty needs three coordinates
ShellRejected(shell) == Len(shell) \in {1, 2}

\* ------------------------------------------------------------------- state
VARIABLES
    gpx,              \* the points of the first segment of the two files
    earth_radius,
    segment,
    lon_lat_line,
    lon_lat_mission,
    lon_lat_polygon,
    lon_polygon,
    lat_polygon,
    shapes,           \* the shells of __line, __mission and __polygon
    distance,
    lats,             \* calculate_area's lats and lons
    lons,
    az,               \* calculate_area's az
    daz,              \* calculate_area's daz
    area,
    av_deviation,
    pc,               \* the method __init__ calls next, "done" or "raised"
    error             \* the exception that ended __init__

vars == << gpx, earth_radius, segment, lon_lat_line, lon_lat_mission,
           lon_lat_polygon, lon_polygon, lat_polygon, shapes, distance, lats,
           lons, az, daz, area, av_deviation, pc, error >>

\* __init__ up to its first call
Fields ==
    /\ segment = << >>
    /\ lon_lat_line = << >>
    /\ lon_lat_mission = << >>
    /\ lon_lat_polygon = << >>
    /\ shapes = << >>
    /\ distance = None
    /\ lats = << >>
    /\ lons = << >>
    /\ az = << >>
    /\ daz = << >>
    /\ area = None
    /\ av_deviation = None
    /\ error = "none"

Init ==
    /\ gpx \in SeqsUpTo(TrackPoints, MaxLineLen) \X SeqsUpTo(TrackPoints, MaxMissionLen)
    /\ earth_radius \in Radii
    /\ Fields
    /\ lon_polygon = << >>
    /\ lat_polygon = << >>
    /\ pc = "read_segments"

ReadSegments ==
    /\ pc = "read_segments"
    /\ segment' = << gpx[1], gpx[2] >>
    /\ lon_lat_line' = ThereAndBack(gpx[1])
    /\ lon_lat_mission' = ThereAndBack(gpx[2])
    /\ lon_lat_polygon' = PolygonCoords(gpx[1], gpx[2])
    /\ lon_polygon' = [i \in 1..Len(lon_lat_polygon') |-> lon_lat_polygon'[i][1]]
    /\ lat_polygon' = [i \in 1..Len(lon_lat_polygon') |-> lon_lat_polygon'[i][2]]
    /\ pc' = "create_polygons"
    /\ UNCHANGED << gpx, earth_radius, shapes, distance, lats, lons, az, daz,
                    area, av_deviation, error >>

CreatePolygons ==
    /\ pc = "create_polygons"
    /\ IF ShellRejected(lon_lat_line) \/ ShellRejected(lon_lat_mission)
             \/ ShellRejected(lon_lat_polygon)
       THEN /\ pc' = "raised"
            /\ error' = "ValueError"
            /\ UNCHANGED shapes
       ELSE /\ shapes' = << lon_lat_line, lon_lat_mission, lon_lat_polygon >>
            /\ pc' = "calculate_line_distance"
            /\ UNCHANGED error
    /\ UNCHANGED << gpx, earth_radius, segment, lon_lat_line, lon_lat_mission,
                    lon_lat_polygon, lon_polygon, lat_polygon, distance, lats,
                    lons, az, daz, area, av_deviation >>

CalculateLineDistance ==
    /\ pc = "calculate_line_distance"
    /\ IF segment[1] = << >>
       THEN /\ pc' = "raised"
            /\ error' = "IndexError"
            /\ UNCHANGED distance
       ELSE /\ distance' = Float(LineDistance(segment[1], earth_radius))
            /\ pc' = "calculate_area"
            /\ UNCHANGED error
    /\ UNCHANGED << gpx, earth_radius, segment, lon_lat_line, lon_lat_mission,
                    lon_lat_polygon, lon_polygon, lat_polygon, shapes, lats,
                    lons, az, daz, area, av_deviation >>

CalculateArea ==
    /\ pc = "calculate_area"
    /\ \E r \in {CalculateAreaOf(lat_polygon, lon_polygon, earth_radius)} :
           /\ lats' = r.lats
           /\ lons' = r.lons
           /\ az' = r.az
           /\ daz' = r.daz
           /\ area' = r.area
           /\ error' = r.error
           /\ pc' = IF r.error = "none" THEN "calculate_av_deviation" ELSE "raised"
    /\ UNCHANGED << gpx, earth_radius, segment, lon_lat_line, lon_lat_mission,
                    lon_lat_polygon, lon_polygon, lat_polygon, shapes, distance,
                    av_deviation >>

CalculateAvDeviation ==
    /\ pc = "calculate_av_deviation"
    /\ av_deviation' = TrueDiv(area, distance)
    /\ pc' = "done"
    /\ UNCHANGED << gpx, earth_radius, segment, lon_lat_line, lon_lat_mission,
                    lon_lat_polygon, lon_polygon, lat_polygon, shapes, distance,
                    lats, lons, az, daz, area, error >>

Next ==
    \/ ReadSegments
    \/ CreatePolygons
    \/ CalculateLineDistance
    \/ CalculateArea
    \/ CalculateAvDeviation

Spec == Init /\ [][Next]_vars

\* the same analysis of tracks that run up and down the meridian
InitMeridian ==
    /\ gpx \in SeqsUpTo(MeridianPoints, MaxLong) \X SeqsUpTo(MeridianPoints, MaxLong)
    /\ earth_radius \in Radii
    /\ Fields
    /\ lon_polygon = << >>
    /\ lat_polygon = << >>
    /\ pc = "read_segments"

SpecMeridian == InitMeridian /\ [][Next]_vars

\* calculate_area alone, on any ring of at most MaxRing points
InitArea ==
    /\ gpx = << << >>, << >> >>
    /\ earth_radius \in Radii
    /\ Fields
    /\ \E ring \in SeqsUpTo(TrackPoints, MaxRing) :
           /\ lon_polygon = [i \in 1..Len(ring) |-> ring[i].longitude]
           /\ lat_polygon = [i \in 1..Len(ring) |-> ring[i].latitude]
    /\ pc = "calculate_area"

NextArea == CalculateArea

SpecArea == InitArea /\ [][NextArea]_vars


\* ------------------------------------------------------------------ claims
Computed(x) == x # None
AreaStepDone == pc \in {"calculate_av_deviation", "done"}
At(p) == << p.longitude, p.latitude >>
InRange(p) ==
    /\ -180 <= p.longitude /\ p.longitude <= 180
    /\ -90 <= p.latitude /\ p.latitude <= 90
Short(track) == Len(track) < 2

\* C1: the ring calculate_area works on is the points of the line in file
\* order, then the points of the mission in reverse order, then one copy of
\* the first point of the line: |L| + |M| + 1 points, the first equal to
\* the last.
C1_RingIsLineThenReversedMission ==
    (pc = "calculate_area" \/ AreaStepDone) =>
        LET L == gpx[1]
            M == gpx[2]
            n == Len(L)
            m == Len(M)
            Pt(i) == << lon_polygon[i], lat_polygon[i] >>
        IN  /\ n >= 1
            /\ Len(lon_polygon) = n + m + 1
            /\ Len(lat_polygon) = n + m + 1
            /\ \A i \in 1..n : Pt(i) = At(L[i])
            /\ \A j \in 1..m : Pt(n + j) = At(M[m + 1 - j])
            /\ Pt(n + m + 1) = At(L[1])
            /\ Pt(1) = Pt(n + m + 1)

\* C1 witness: the area step has run on a line of two points or more and a
\* mission of two different points, so that its order shows in the ring
C1_Witness ==
    /\ AreaStepDone
    /\ Len(gpx[1]) >= 2
    /\ Len(gpx[2]) = 2
    /\ gpx[2][1] # gpx[2][2]

\* C2: with a line or a mission of fewer than 2 points the analysis fails
\* and produces no distance, no area and no deviation (any exception is
\* taken for the failure the claim asks for).
C2_ShortTrackGivesNoResult ==
    (Short(gpx[1]) \/ Short(gpx[2])) =>
        /\ distance = None
        /\ area = None
        /\ av_deviation = None
        /\ pc # "done"

\* C3: when the line's first and last point coincide, so that the distance
\* is 0, the analysis ends in an error at the deviation step and no inf or
\* nan is stored as the average deviation.
C3_ZeroDistanceIsAnError ==
    distance = Float(0) =>
        /\ av_deviation.kind \notin {"inf", "-inf", "nan"}
        /\ pc # "done"

\* C4: for a ring of 3 points or more the area calculate_area stores lies
\* in [0, 2 pi r^2].
C4_AreaWithinHalfSphere ==
    (Computed(area) /\ Len(lat_polygon) >= 3) =>
        /\ 0 <= area.val
        /\ area.val <= (FourPi \div 2) * earth_radius * earth_radius

\* C5: calculate_area gives the same result for a ring and for the same ring
\* in reverse point order.
C5_ReversedRingSameArea ==
    AreaStepDone =>
        area = CalculateAreaOf(Reverse(lat_polygon), Reverse(lon_polygon),
                               earth_radius).area

\* C6: when the line and the mission are the same point sequence, of 2
\* points or more with distinct endpoints, the area is 0 and the average
\* deviation is 0.
C6_SameTrackZeroArea ==
    ( /\ pc = "done"
      /\ gpx[1] = gpx[2]
      /\ Len(gpx[1]) >= 2
      /\ gpx[1][1] # gpx[1][Len(gpx[1])] ) =>
        /\ area = Float(0)
        /\ av_deviation = Float(0)

\* C7: with a point of either track out of range (longitude outside
\* [-180, 180] or latitude outside [-90, 90]) the analysis fails before any
\* computation: no distance, no area and no deviation is computed.
C7_OutOfRangeGivesNoResult ==
    (\E k \in 1..2 : \E i \in 1..Len(gpx[k]) : ~InRange(gpx[k][i])) =>
        /\ distance = None
        /\ area = None
        /\ av_deviation = None
        /\ pc # "done"

\* C8: the distance is the radius times the central angle between the first
\* and the last point of the line, whatever the points between them and
\* whatever the mission: it is the distance of the line cut down to its two
\* endpoints and of the line with any point put between them, and it is 0
\* when the first and the last point are equal.
C8_DistanceFromEndpointsOnly ==
    Computed(distance) =>
        LET L == gpx[1]
            first == L[1]
            last == L[Len(L)]
        IN  /\ distance = Float(earth_radius * HaversineMemo[first, last])
            /\ distance.val = LineDistance(<< first, last >>, earth_radius)
            /\ \A p \in TrackPoints :
                   distance.val = LineDistance(<< first, p, last >>, earth_radius)
            /\ (first = last => distance = Float(0))

\* C8 witness: the distance of a line of three points whose middle point is
\* neither endpoint has been computed, and it is not 0
C8_Witness ==
    /\ Computed(distance)
    /\ Len(gpx[1]) = 3
    /\ gpx[1][2] \notin {gpx[1][1], gpx[1][3]}
    /\ gpx[1][1] # gpx[1][3]
    /\ distance.val > 0

C10_DazInLeftOpenRange ==
    AreaStepDone =>
        \A i \in 1..Len(daz) :
            /\ -PI < daz[i] /\ daz[i] <= PI
            /\ (daz[i] - (az[i + 1] - az[i])) % (2 * PI) = 0

\* C10 as amended: every daz lies in [-pi, pi), a raw difference of pi or
\* of -pi maps to -pi, and daz is congruent to az[i+1] - az[i] modulo 2 pi.
C10_DazInRightOpenRange ==
    AreaStepDone =>
        \A i \in 1..Len(daz) :
            /\ -PI <= daz[i] /\ daz[i] < PI
            /\ (daz[i] - (az[i + 1] - az[i])) % (2 * PI) = 0
            /\ (Abs(az[i + 1] - az[i]) = PI => daz[i] = -PI)

\* C10 witness: a ring with a raw azimuth difference of exactly pi and one
\* beyond pi that wraps
C10_Witness ==
    /\ AreaStepDone
    /\ \E i \in 1..Len(daz) : az[i + 1] - az[i] = PI /\ daz[i] = -PI
    /\ \E i \in 1..Len(daz) : az[i + 1] - az[i] > PI /\ daz[i] < 0

=============================================================================
